---- MODULE Spec2Model ----
(***************************************************************************)
(* A model of the clox expression compiler (src/chunk.h, lines 39-305: the *)
(* Pratt parser that emits bytecode into a Chunk) together with the        *)
(* collaborators it is coupled to: the token source, the bytecode          *)
(* container's append operations and the stack VM that runs the bytecode.  *)
(*                                                                         *)
(* The compiler's functions call each other recursively.  The model keeps  *)
(* the C call stack explicitly in the variable frames: every function of   *)
(* the compiler that calls back into parsePrecedence is one action per     *)
(* resumption point, and the leaf functions (advance, consume, errorAt,    *)
(* emitByte, makeConstant, ...) are operators applied inside the action    *)
(* of their caller.                                                        *)
(*                                                                         *)
(* Values are IEEE doubles in the program.  The model keeps them as exact  *)
(* signed rationals extended with the signed zeros, the infinities and     *)
(* NaN; rounding of inexact quotients is not modelled.                     *)
(***************************************************************************)
EXTENDS Integers, Sequences, FiniteSets, TLC

VARIABLES
    scanner,    \* the token source: the tokens of the source text and the read position
    parser,     \* Parser parser: current, previous, hadError, panicMode
    chunk,      \* *compilingChunk: code, lines, constants
    errout,     \* the diagnostic lines written to stderr, in order
    frames,     \* the compiler's call stack, innermost call last
    phase,      \* where the program is: idle, compiling, compiled, running, ok, ...
    result,     \* the value compile returned (FALSE before it returns)
    vm,         \* the VM: instruction pointer and operand stack
    ncalls,     \* how many compile calls have returned
    first       \* what the first compile call was given and what it produced

vars == <<scanner, parser, chunk, errout, frames, phase, result, vm, ncalls, first>>

----------------------------------------------------------------------------
(* Bounds of the model *)

\* Longest token sequence (end-of-source excluded) enumerated exhaustively.
MaxLen == 3
\* Largest literal used in the enumerated sources.
MaxLit == 2
\* Most compile calls run between two compilations of one source.
MaxBetween == 1

----------------------------------------------------------------------------
(* Program constants *)

UINT8_MAX == 255

OP_RETURN == 0
OP_CONSTANT == 1
OP_ADD == 2
OP_SUBTRACT == 3
OP_MULTIPLY == 4
OP_DIVIDE == 5
OP_NEGATE == 6

PREC_NONE == 0
PREC_ASSIGNMENT == 1
PREC_OR == 2
PREC_AND == 3
PREC_EQUALITY == 4
PREC_COMPARISON == 5
PREC_TERM == 6
PREC_FACTOR == 7
PREC_UNARY == 8
PREC_CALL == 9
PREC_PRIMARY == 10

----------------------------------------------------------------------------
(* Values: double, as a signed rational or an IEEE special *)

RECURSIVE GCD(_, _)
GCD(a, b) == IF b = 0 THEN a ELSE GCD(b, a % b)

Abs(n) == IF n < 0 THEN -n ELSE n

Fin(sgn, num, den) ==
    LET g == GCD(num, den)
    IN  [cls |-> "fin", sgn |-> sgn, num |-> num \div g, den |-> den \div g]

Num(n) == Fin(IF n < 0 THEN -1 ELSE 1, Abs(n), 1)
Inf(sgn) == [cls |-> "inf", sgn |-> sgn, num |-> 0, den |-> 1]
NaN == [cls |-> "nan", sgn |-> 1, num |-> 0, den |-> 1]

IsZero(v) == v.cls = "fin" /\ v.num = 0

ValNegate(v) == IF v.cls = "nan" THEN v ELSE [v EXCEPT !.sgn = -@]

ValAdd(a, b) ==
    IF a.cls = "nan" \/ b.cls = "nan" THEN NaN
    ELSE IF a.cls = "inf" /\ b.cls = "inf" THEN (IF a.sgn = b.sgn THEN a ELSE NaN)
    ELSE IF a.cls = "inf" THEN a
    ELSE IF b.cls = "inf" THEN b
    ELSE LET n == a.sgn * a.num * b.den + b.sgn * b.num * a.den
             d == a.den * b.den
         IN  IF n = 0
             THEN Fin(IF a.sgn = -1 /\ b.sgn = -1 THEN -1 ELSE 1, 0, 1)
             ELSE Fin(IF n < 0 THEN -1 ELSE 1, Abs(n), d)

ValSub(a, b) == ValAdd(a, ValNegate(b))

ValMul(a, b) ==
    IF a.cls = "nan" \/ b.cls = "nan" THEN NaN
    ELSE IF (a.cls = "inf" /\ IsZero(b)) \/ (IsZero(a) /\ b.cls = "inf") THEN NaN
    ELSE IF a.cls = "inf" \/ b.cls = "inf" THEN Inf(a.sgn * b.sgn)
    ELSE Fin(a.sgn * b.sgn, a.num * b.num, a.den * b.den)

ValDiv(a, b) ==
    IF a.cls = "nan" \/ b.cls = "nan" THEN NaN
    ELSE IF a.cls = "inf" /\ b.cls = "inf" THEN NaN
    ELSE IF IsZero(a) /\ IsZero(b) THEN NaN
    ELSE IF a.cls = "inf" \/ IsZero(b) THEN Inf(a.sgn * b.sgn)
    ELSE IF b.cls = "inf" THEN Fin(a.sgn * b.sgn, 0, 1)
    ELSE Fin(a.sgn * b.sgn, a.num * b.den, a.den * b.num)

----------------------------------------------------------------------------
(* Tokens and the token source *)

\* TokenType, in the order of the rows of rules[].
TokenTypes ==
    << "TOKEN_LEFT_PAREN", "TOKEN_RIGHT_PAREN", "TOKEN_LEFT_BRACE", "TOKEN_RIGHT_BRACE",
       "TOKEN_COMMA", "TOKEN_DOT", "TOKEN_MINUS", "TOKEN_PLUS", "TOKEN_SEMICOLON",
       "TOKEN_SLASH", "TOKEN_STAR", "TOKEN_BANG", "TOKEN_BANG_EQUAL", "TOKEN_EQUAL",
       "TOKEN_EQUAL_EQUAL", "TOKEN_GREATER", "TOKEN_GREATER_EQUAL", "TOKEN_LESS",
       "TOKEN_LESS_EQUAL", "TOKEN_IDENTIFIER", "TOKEN_STRING", "TOKEN_NUMBER",
       "TOKEN_AND", "TOKEN_CLASS", "TOKEN_ELSE", "TOKEN_FALSE", "TOKEN_FOR", "TOKEN_FUN",
       "TOKEN_IF", "TOKEN_NIL", "TOKEN_OR", "TOKEN_PRINT", "TOKEN_RETURN", "TOKEN_SUPER",
       "TOKEN_THIS", "TOKEN_TRUE", "TOKEN_VAR", "TOKEN_WHILE", "TOKEN_ERROR", "TOKEN_EOF" >>

\* A C string (a lexeme or a message) is a sequence of pieces of text; a number
\* lexeme has one piece per digit.
Text(s) == <<s>>

\* Token: type, start/length (the lexeme; an error token's is its message), line.
Token(type, lexeme, line) == [type |-> type, start |-> lexeme, line |-> line]

\* A zero-initialised Token (Parser parser is a global): enum value 0, no text.
ZeroToken == Token(TokenTypes[1], <<>>, 0)

\* initScanner(source): the scanner starts at the first token of the source.
initScanner(tokens) == [tokens |-> tokens, pos |-> 1]

\* The line the scanner is on when it reaches the end of the source.
LastLine(tokens) == IF tokens = <<>> THEN 1 ELSE tokens[Len(tokens)].line

\* scanToken(): the next token, and end-of-source again and again once exhausted.
scanToken(sc) ==
    IF sc.pos <= Len(sc.tokens)
    THEN [token |-> sc.tokens[sc.pos], scanner |-> [sc EXCEPT !.pos = @ + 1]]
    ELSE [token |-> Token("TOKEN_EOF", <<>>, LastLine(sc.tokens)), scanner |-> sc]

----------------------------------------------------------------------------
(* The bytecode container *)

\* initChunk(chunk)
initChunk == [code |-> <<>>, lines |-> <<>>, constants |-> <<>>]

\* writeChunk(chunk, byte, line): one byte and its line are appended.
writeChunk(c, byte, line) ==
    [c EXCEPT !.code = Append(@, byte), !.lines = Append(@, line)]

\* addConstant(chunk, value): the value is appended to the pool; the index of the
\* newly added constant is returned.
addConstant(c, value) ==
    [chunk |-> [c EXCEPT !.constants = Append(@, value)], index |-> Len(c.constants)]

----------------------------------------------------------------------------
(* The compiler's leaf functions, as operators on the machine m =            *)
(* [scanner, parser, chunk, errout]                                          *)

\* One line of stderr: "[line N] Error", " at end" | "" | " at 'lexeme'", ": message".
Diagnostic(token, message) ==
    [line |-> token.line,
     at |-> IF token.type = "TOKEN_EOF" THEN "end"
            ELSE IF token.type = "TOKEN_ERROR" THEN "nothing"
            ELSE "lexeme",
     lexeme |-> IF token.type \in {"TOKEN_EOF", "TOKEN_ERROR"} THEN <<>> ELSE token.start,
     message |-> message]

\* errorAt without its last statement.
errorAtNoFlag(m, token, message) ==
    IF m.parser.panicMode THEN m
    ELSE [m EXCEPT !.parser.panicMode = TRUE,
                   !.errout = Append(@, Diagnostic(token, message))]

\* errorAt without its first assignment.
errorAtNoPanic(m, token, message) ==
    IF m.parser.panicMode THEN m
    ELSE [m EXCEPT !.errout = Append(@, Diagnostic(token, message)),
                   !.parser.hadError = TRUE]

\* errorAt without its test of panicMode.
errorAtUnsuppressed(m, token, message) ==
    [m EXCEPT !.parser.panicMode = TRUE,
              !.errout = Append(@, Diagnostic(token, message)),
              !.parser.hadError = TRUE]

errorAt(m, token, message) ==
    IF m.parser.panicMode THEN m
    ELSE [m EXCEPT !.parser.panicMode = TRUE,
                   !.errout = Append(@, Diagnostic(token, message)),
                   !.parser.hadError = TRUE]

errorAtCurrent(m, message) == errorAt(m, m.parser.current, message)

error(m, message) == errorAt(m, m.parser.previous, message)

\* The for (;;) loop of advance().
RECURSIVE advanceLoop(_)
advanceLoop(m) ==
    LET s == scanToken(m.scanner)
        m1 == [m EXCEPT !.parser.current = s.token, !.scanner = s.scanner]
    IN  IF s.token.type # "TOKEN_ERROR" THEN m1
        ELSE advanceLoop(errorAtCurrent(m1, m1.parser.current.start))

advance(m) == advanceLoop([m EXCEPT !.parser.previous = m.parser.current])

\* consume that skips the token it did not expect.
consumeSkipsMismatch(m, type, message) ==
    IF m.parser.current.type = type THEN advance(m)
    ELSE advance(errorAtCurrent(m, message))

consume(m, type, message) ==
    IF m.parser.current.type = type THEN advance(m)
    ELSE errorAtCurrent(m, message)

emitByte(m, byte) ==
    [m EXCEPT !.chunk = writeChunk(@, byte, m.parser.previous.line)]

emitBytes(m, byte1, byte2) == emitByte(emitByte(m, byte1), byte2)

\* emitReturn that emits nothing once an error was reported.
emitReturnUnlessError(m) == IF m.parser.hadError THEN m ELSE emitByte(m, OP_RETURN)

emitReturn(m) == emitByte(m, OP_RETURN)

\* endCompiler without its emitReturn().
endCompilerNoReturn(m) == m

\* endCompiler(): the disassembly under DEBUG_PRINT_CODE changes no state.
endCompiler(m) == emitReturn(m)

\* The test of makeConstant, one off.
TooManyConstantsOffByOne(constant) == constant > UINT8_MAX + 1

\* The test of makeConstant: the index does not fit a byte.
TooManyConstants(constant) == constant > UINT8_MAX

\* makeConstant without its test of the index.
makeConstantUnchecked(m, value) ==
    LET a == addConstant(m.chunk, value)
    IN  [m |-> [m EXCEPT !.chunk = a.chunk], byte |-> a.index % (UINT8_MAX + 1)]

\* makeConstant that reuses the slot of an equal value.
makeConstantDedup(m, value) ==
    LET same == {i \in 1..Len(m.chunk.constants) : m.chunk.constants[i] = value}
        a == addConstant(m.chunk, value)
        m1 == [m EXCEPT !.chunk = a.chunk]
    IN  IF same # {}
        THEN [m |-> m, byte |-> ((CHOOSE i \in same : \A j \in same : i <= j) - 1)
                                    % (UINT8_MAX + 1)]
        ELSE IF TooManyConstants(a.index)
        THEN [m |-> error(m1, Text("Too many constants in one chunk.")), byte |-> 0]
        ELSE [m |-> m1, byte |-> a.index % (UINT8_MAX + 1)]

\* makeConstant(value): the machine after the call and the byte returned.
makeConstant(m, value) ==
    LET a == addConstant(m.chunk, value)
        m1 == [m EXCEPT !.chunk = a.chunk]
    IN  IF TooManyConstants(a.index)
        THEN [m |-> error(m1, Text("Too many constants in one chunk.")), byte |-> 0]
        ELSE [m |-> m1, byte |-> a.index % (UINT8_MAX + 1)]

\* emitConstant without the operand byte.
emitConstantNoOperand(m, value) == emitByte(makeConstant(m, value).m, OP_CONSTANT)

emitConstant(m, value) ==
    LET k == makeConstant(m, value)
    IN  emitBytes(k.m, OP_CONSTANT, k.byte)

\* strtod on a number lexeme: its digits read in base ten.
DigitValue(ch) ==
    CASE ch = "0" -> 0 [] ch = "1" -> 1 [] ch = "2" -> 2 [] ch = "3" -> 3 [] ch = "4" -> 4
      [] ch = "5" -> 5 [] ch = "6" -> 6 [] ch = "7" -> 7 [] ch = "8" -> 8 [] ch = "9" -> 9

RECURSIVE DecimalValue(_)
DecimalValue(digits) ==
    IF digits = <<>> THEN 0
    ELSE 10 * DecimalValue(SubSeq(digits, 1, Len(digits) - 1)) + DigitValue(digits[Len(digits)])

strtod(lexeme) == Num(DecimalValue(lexeme))

\* number()
number(m) == emitConstant(m, strtod(m.parser.previous.start))

----------------------------------------------------------------------------
(* The rule table *)

RuleRows ==
    << <<"grouping", "NULL",   PREC_NONE>>,       \* TOKEN_LEFT_PAREN
       <<"NULL",     "NULL",   PREC_NONE>>,       \* TOKEN_RIGHT_PAREN
       <<"NULL",     "NULL",   PREC_NONE>>,       \* TOKEN_LEFT_BRACE
       <<"NULL",     "NULL",   PREC_NONE>>,       \* TOKEN_RIGHT_BRACE
       <<"NULL",     "NULL",   PREC_NONE>>,       \* TOKEN_COMMA
       <<"NULL",     "NULL",   PREC_NONE>>,       \* TOKEN_DOT
       <<"unary",    "binary", PREC_TERM>>,       \* TOKEN_MINUS
       <<"NULL",     "binary", PREC_TERM>>,       \* TOKEN_PLUS
       <<"NULL",     "NULL",   PREC_NONE>>,       \* TOKEN_SEMICOLON
       <<"NULL",     "binary", PREC_FACTOR>>,     \* TOKEN_SLASH
       <<"NULL",     "binary", PREC_FACTOR>>,     \* TOKEN_STAR
       <<"NULL",     "NULL",   PREC_NONE>>,       \* TOKEN_BANG
       <<"NULL",     "NULL",   PREC_NONE>>,       \* TOKEN_BANG_EQUAL
       <<"NULL",     "NULL",   PREC_NONE>>,       \* TOKEN_EQUAL
       <<"NULL",     "NULL",   PREC_NONE>>,       \* TOKEN_EQUAL_EQUAL
       <<"NULL",     "NULL",   PREC_NONE>>,       \* TOKEN_GREATER
       <<"NULL",     "NULL",   PREC_NONE>>,       \* TOKEN_GREATER_EQUAL
       <<"NULL",     "NULL",   PREC_NONE>>,       \* TOKEN_LESS
       <<"NULL",     "NULL",   PREC_NONE>>,       \* TOKEN_LESS_EQUAL
       <<"NULL",     "NULL",   PREC_NONE>>,       \* TOKEN_IDENTIFIER
       <<"NULL",     "NULL",   PREC_NONE>>,       \* TOKEN_STRING
       <<"number",   "NULL",   PREC_NONE>>,       \* TOKEN_NUMBER
       <<"NULL",     "NULL",   PREC_NONE>>,       \* TOKEN_AND
       <<"NULL",     "NULL",   PREC_NONE>>,       \* TOKEN_CLASS
       <<"NULL",     "NULL",   PREC_NONE>>,       \* TOKEN_ELSE
       <<"NULL",     "NULL",   PREC_NONE>>,       \* TOKEN_FALSE
       <<"NULL",     "NULL",   PREC_NONE>>,       \* TOKEN_FOR
       <<"NULL",     "NULL",   PREC_NONE>>,       \* TOKEN_FUN
       <<"NULL",     "NULL",   PREC_NONE>>,       \* TOKEN_IF
       <<"NULL",     "NULL",   PREC_NONE>>,       \* TOKEN_NIL
       <<"NULL",     "NULL",   PREC_NONE>>,       \* TOKEN_OR
       <<"NULL",     "NULL",   PREC_NONE>>,       \* TOKEN_PRINT
       <<"NULL",     "NULL",   PREC_NONE>>,       \* TOKEN_RETURN
       <<"NULL",     "NULL",   PREC_NONE>>,       \* TOKEN_SUPER
       <<"NULL",     "NULL",   PREC_NONE>>,       \* TOKEN_THIS
       <<"NULL",     "NULL",   PREC_NONE>>,       \* TOKEN_TRUE
       <<"NULL",     "NULL",   PREC_NONE>>,       \* TOKEN_VAR
       <<"NULL",     "NULL",   PREC_NONE>>,       \* TOKEN_WHILE
       <<"NULL",     "NULL",   PREC_NONE>>,       \* TOKEN_ERROR
       <<"NULL",     "NULL",   PREC_NONE>> >>     \* TOKEN_EOF

\* The enum value of a token type, counted from 1.
TokenIndex(type) == CHOOSE i \in 1..Len(TokenTypes) : TokenTypes[i] = type

rules ==
    [i \in 1..Len(RuleRows) |->
        [prefix |-> RuleRows[i][1], infix |-> RuleRows[i][2], precedence |-> RuleRows[i][3]]]

\* The table with the row of TOKEN_STAR at the precedence of the row above TOKEN_SLASH.
getRuleStarAsTerm(type) ==
    IF type = "TOKEN_STAR" THEN [rules[TokenIndex(type)] EXCEPT !.precedence = PREC_TERM]
    ELSE rules[TokenIndex(type)]

\* The table with a precedence but no infix rule in the row of TOKEN_BANG_EQUAL.
getRuleBangEqualNoInfix(type) ==
    IF type = "TOKEN_BANG_EQUAL"
    THEN [rules[TokenIndex(type)] EXCEPT !.precedence = PREC_EQUALITY]
    ELSE rules[TokenIndex(type)]

getRule(type) == rules[TokenIndex(type)]

----------------------------------------------------------------------------
(* The sources the model compiles *)

Digit == <<"0", "1", "2", "3", "4", "5", "6", "7", "8", "9">>

\* The lexeme the scanner produces for the literal n.
RECURSIVE Digits(_)
Digits(n) == IF n < 10 THEN <<Digit[n + 1]>> ELSE Append(Digits(n \div 10), Digit[(n % 10) + 1])

NumTok(n) == Token("TOKEN_NUMBER", Digits(n), 1)
PLUS == Token("TOKEN_PLUS", Text("+"), 1)
MINUS == Token("TOKEN_MINUS", Text("-"), 1)
STAR == Token("TOKEN_STAR", Text("*"), 1)
SLASH == Token("TOKEN_SLASH", Text("/"), 1)
LPAREN == Token("TOKEN_LEFT_PAREN", Text("("), 1)
RPAREN == Token("TOKEN_RIGHT_PAREN", Text(")"), 1)
SEMI == Token("TOKEN_SEMICOLON", Text(";"), 1)
ERRTOK == Token("TOKEN_ERROR", Text("Unexpected character."), 1)

OnLine(tok, line) == [tok EXCEPT !.line = line]

Lits == {NumTok(n) : n \in 0..MaxLit}
TermOps == {PLUS, MINUS}
FactorOps == {STAR, SLASH}
BinOps == TermOps \cup FactorOps
Alphabet == Lits \cup BinOps \cup {LPAREN, RPAREN, SEMI, ERRTOK}

\* Every token sequence of at most MaxLen tokens.
TokSeqs == UNION {[1..n -> Alphabet] : n \in 0..MaxLen}

\* a p b q c
OpTriples ==
    {<<a, p, b, q, c>> : a \in Lits, p \in BinOps, b \in Lits, q \in BinOps, c \in Lits}

\* Unary minus and parentheses around and inside binary expressions.
UnaryForms ==
    UNION { { <<MINUS, a, p, b>>, <<a, p, MINUS, b>>, <<MINUS, MINUS, a, p, b>>,
              <<MINUS, LPAREN, a, p, b, RPAREN>>, <<MINUS, LPAREN, a, RPAREN, p, b>>,
              <<LPAREN, MINUS, a, RPAREN, p, MINUS, MINUS, b>> }
            : a \in Lits, p \in BinOps, b \in Lits }

GroupForms ==
    UNION { { <<LPAREN, a, p, b, RPAREN, q, c>>, <<a, p, LPAREN, b, q, c, RPAREN>> }
            : a \in Lits, p \in BinOps, b \in Lits, q \in BinOps, c \in Lits }

\* "((1 + 2) * 3 - 4) / -5"
SrcEndToEnd ==
    <<LPAREN, LPAREN, NumTok(1), PLUS, NumTok(2), RPAREN, STAR, NumTok(3), MINUS,
      NumTok(4), RPAREN, SLASH, MINUS, NumTok(5)>>
\* "2 + 3 * 4"
SrcPrecedence == <<NumTok(2), PLUS, NumTok(3), STAR, NumTok(4)>>
\* "8 - 4 - 2"
SrcLeftAssoc == <<NumTok(8), MINUS, NumTok(4), MINUS, NumTok(2)>>
\* "-(1 + 2)"
SrcNegGroup == <<MINUS, LPAREN, NumTok(1), PLUS, NumTok(2), RPAREN>>
\* "- - 5"
SrcDoubleNeg == <<MINUS, MINUS, NumTok(5)>>
\* "(1 + 2) * 3"
SrcGrouping == <<LPAREN, NumTok(1), PLUS, NumTok(2), RPAREN, STAR, NumTok(3)>>
\* "1 +"
SrcMissingOperand == <<NumTok(1), PLUS>>
\* "1 + 1"
SrcSameConstant == <<NumTok(1), PLUS, NumTok(1)>>
\* "7 /\n(2 @ -\n 3) ) 4": three lines, an error token, a stray ')' and a trailing literal
SrcThreeLines ==
    <<NumTok(7), SLASH, OnLine(LPAREN, 2), OnLine(NumTok(2), 2), OnLine(ERRTOK, 2),
      OnLine(MINUS, 2), OnLine(NumTok(3), 3), OnLine(RPAREN, 3), OnLine(RPAREN, 3),
      OnLine(NumTok(4), 3)>>
\* "12 *\n(30 - 4)": two lines, literals of two digits
SrcTwoLines ==
    <<NumTok(12), STAR, OnLine(LPAREN, 2), OnLine(NumTok(30), 2), OnLine(MINUS, 2),
      OnLine(NumTok(4), 2), OnLine(RPAREN, 2)>>

Examples ==
    {SrcEndToEnd, SrcPrecedence, SrcLeftAssoc, SrcNegGroup, SrcDoubleNeg, SrcGrouping,
     SrcMissingOperand, SrcSameConstant, SrcThreeLines, SrcTwoLines}

\* The spec's "300 distinct numeric literals".
ManyLiterals == 300

\* "1 op 2 op 3 ... op n": n distinct literals.
Chain(n, op) == [i \in 1..(2 * n - 1) |-> IF i % 2 = 1 THEN NumTok((i + 1) \div 2) ELSE op]

LongCounts == {UINT8_MAX, UINT8_MAX + 1, UINT8_MAX + 2, ManyLiterals}

LongSources ==
    {Chain(n, op) : n \in LongCounts, op \in TermOps}
      \cup {<<MINUS, LPAREN>> \o Chain(n, PLUS) \o <<RPAREN>> : n \in {UINT8_MAX + 1, UINT8_MAX + 2}}
      \cup {Chain(UINT8_MAX + 2, PLUS) \o <<RPAREN>>}

\* The sources compiled between two compilations of one source: one that fails and
\* leaves hadError and panicMode set, one with an error token on its second line, one
\* that succeeds.
Interleaved == {SrcMissingOperand, SrcThreeLines, SrcSameConstant}

\* The sources that are compiled twice: those of Sources, the longest enumerated
\* token sequences left out.
ShortSeqs == UNION {[1..n -> Alphabet] : n \in 0..(MaxLen - 1)}

Recompiled ==
    ShortSeqs \cup OpTriples \cup UnaryForms \cup GroupForms \cup Examples \cup LongSources

\* A second error token, with the message of another scanning error.
ERRTOK2 == Token("TOKEN_ERROR", Text("Unterminated string."), 1)

\* Runs of error tokens: at the start of the source, after an operator, inside and
\* after a group.
ErrorForms ==
    UNION { { <<ERRTOK2, ERRTOK, a>>, <<a, PLUS, ERRTOK, ERRTOK2, b>>,
              <<a, PLUS, ERRTOK2, ERRTOK, ERRTOK, b>>, <<a, ERRTOK, ERRTOK2, STAR, b>>,
              <<LPAREN, a, RPAREN, ERRTOK>>, <<LPAREN, a, RPAREN, ERRTOK2, ERRTOK, PLUS, b>>,
              <<LPAREN, a, ERRTOK, ERRTOK2, RPAREN>>, <<LPAREN, a, ERRTOK2, b, RPAREN>>,
              <<LPAREN, a, SEMI, ERRTOK>>, <<a, PLUS, SEMI, ERRTOK2, ERRTOK>> }
            : a \in Lits, b \in Lits }

\* A token of each type the scanner yields before the end of the source.
TypeTok(type) ==
    IF type = "TOKEN_NUMBER" THEN NumTok(1) ELSE Token(type, Text(type), 1)

\* Each token type of the rule table where a prefix and where an infix is looked up.
AllTypeForms ==
    UNION { { <<TypeTok(TokenTypes[i])>>, <<NumTok(1), TypeTok(TokenTypes[i]), NumTok(2)>>,
              <<LPAREN, NumTok(1), TypeTok(TokenTypes[i])>> }
            : i \in {j \in 1..Len(TokenTypes) : TokenTypes[j] # "TOKEN_EOF"} }

\* "1 + (2 + (3 + ... (n)))": n literals, each pushed before any is popped.
Nested(n) ==
    [i \in 1..(4 * n - 3) |->
        IF i > 3 * n - 2 THEN RPAREN
        ELSE IF i % 3 = 1 THEN NumTok((i + 2) \div 3)
        ELSE IF i % 3 = 2 THEN PLUS
        ELSE LPAREN]

\* The deepest nesting of parentheses compiled.
DeepNest == 96

NestedSources == {Nested(n) : n \in {MaxLen, DeepNest}}

Sources ==
    TokSeqs \cup OpTriples \cup UnaryForms \cup GroupForms \cup Examples \cup LongSources
      \cup ErrorForms \cup AllTypeForms \cup NestedSources

----------------------------------------------------------------------------
(* The compiler's call stack *)

Frame(fn, pc, operatorType, precedence) ==
    [fn |-> fn, pc |-> pc, operatorType |-> operatorType, precedence |-> precedence]

\* The call a ParseFn pointer makes: the callee starts with no locals set.
Call(fn) == Frame(fn, "start", "", PREC_NONE)

\* parsePrecedence(precedence), about to run.
CallParsePrecedence(precedence) == Frame("parsePrecedence", "start", "", precedence)

\* expression(): parsePrecedence(PREC_ASSIGNMENT) and nothing else.
expression == CallParsePrecedence(PREC_ASSIGNMENT)

\* binary() without the + 1.
BinaryOperandSamePrecedence(rule) == rule.precedence

\* The precedence binary() parses its right operand at.
BinaryOperandPrecedence(rule) == rule.precedence + 1

\* unary() parsing its operand as a whole expression.
UnaryOperandAsExpression == PREC_ASSIGNMENT

\* The precedence unary() parses its operand at.
UnaryOperandPrecedence == PREC_UNARY

\* The while loop with < for <=.
InfixContinuesStrict(precedence, current) == precedence < getRule(current.type).precedence

\* The while loop with >= for <=.
InfixContinuesReversed(precedence, current) ==
    precedence >= getRule(current.type).precedence

\* The test of parsePrecedence's while loop.
InfixContinues(precedence, current) == precedence <= getRule(current.type).precedence

Top == frames[Len(frames)]
Pop == SubSeq(frames, 1, Len(frames) - 1)
Running(fn, pc) == phase = "compiling" /\ frames # <<>> /\ Top.fn = fn /\ Top.pc = pc

Machine == [scanner |-> scanner, parser |-> parser, chunk |-> chunk, errout |-> errout]

\* The machine's fields become the next state.
Becomes(m) ==
    /\ scanner' = m.scanner
    /\ parser' = m.parser
    /\ chunk' = m.chunk
    /\ errout' = m.errout

NoValue == [cls |-> "none", sgn |-> 1, num |-> 0, den |-> 1]

Init ==
    /\ scanner = initScanner(<<>>)
    /\ parser = [current |-> ZeroToken, previous |-> ZeroToken,
                 hadError |-> FALSE, panicMode |-> FALSE]
    /\ chunk = initChunk
    /\ errout = <<>>
    /\ frames = <<>>
    /\ phase = "idle"
    /\ result = FALSE
    /\ vm = [ip |-> 0, stack |-> <<>>, value |-> NoValue]
    /\ ncalls = 0
    /\ first = [source |-> <<>>, result |-> FALSE, chunk |-> initChunk]

----------------------------------------------------------------------------
(* The compiler, one action per resumption point *)

\* compile's start with only hadError reset.
compileStartKeepsPanic(m, source) ==
    advance([m EXCEPT !.scanner = initScanner(source), !.parser.hadError = FALSE])

\* compile(source, chunk) from initScanner to the first advance().
compileStart(m, source) ==
    advance([m EXCEPT !.scanner = initScanner(source),
                      !.parser.hadError = FALSE,
                      !.parser.panicMode = FALSE])

\* compile(source, chunk) for a source of S, up to its call of expression().
compileEnter(S) ==
    /\ phase = "idle"
    /\ \E source \in S : Becomes(compileStart(Machine, source))
    /\ frames' = <<Frame("compile", "afterExpression", "", PREC_NONE), expression>>
    /\ phase' = "compiling"
    /\ UNCHANGED <<result, vm, ncalls, first>>

compile_enter == compileEnter(Sources)

\* parsePrecedence, up to its call of the prefix rule.
parsePrecedence_prefix ==
    /\ Running("parsePrecedence", "start")
    /\ LET m == advance(Machine)
           prefixRule == getRule(m.parser.previous.type).prefix
       IN  IF prefixRule = "NULL"
           THEN /\ Becomes(error(m, Text("Expect expression.")))
                /\ frames' = Pop
           ELSE /\ Becomes(m)
                /\ frames' = Append(Append(Pop, [Top EXCEPT !.pc = "loop"]), Call(prefixRule))
    /\ UNCHANGED <<phase, result, vm, ncalls, first>>

\* parsePrecedence's while loop: one test and, if it passes, the call of the infix rule.
parsePrecedence_infix ==
    /\ Running("parsePrecedence", "loop")
    /\ IF InfixContinues(Top.precedence, parser.current)
       THEN LET m == advance(Machine)
                infixRule == getRule(m.parser.previous.type).infix
            IN  /\ Becomes(m)
                /\ frames' = Append(frames, Call(infixRule))
       ELSE /\ frames' = Pop
            /\ UNCHANGED <<scanner, parser, chunk, errout>>
    /\ UNCHANGED <<phase, result, vm, ncalls, first>>

number_call ==
    /\ Running("number", "start")
    /\ Becomes(number(Machine))
    /\ frames' = Pop
    /\ UNCHANGED <<phase, result, vm, ncalls, first>>

\* grouping(), up to its call of expression().
grouping_enter ==
    /\ Running("grouping", "start")
    /\ frames' = Append(Append(Pop, [Top EXCEPT !.pc = "consume"]), expression)
    /\ UNCHANGED <<scanner, parser, chunk, errout, phase, result, vm, ncalls, first>>

grouping_consume ==
    /\ Running("grouping", "consume")
    /\ Becomes(consume(Machine, "TOKEN_RIGHT_PAREN", Text("Expect ')' after expression.")))
    /\ frames' = Pop
    /\ UNCHANGED <<phase, result, vm, ncalls, first>>

\* unary(), up to its call of parsePrecedence.
unary_enter ==
    /\ Running("unary", "start")
    /\ frames' = Append(Append(Pop, [Top EXCEPT !.pc = "emit",
                                                !.operatorType = parser.previous.type]),
                        CallParsePrecedence(UnaryOperandPrecedence))
    /\ UNCHANGED <<scanner, parser, chunk, errout, phase, result, vm, ncalls, first>>

\* The switch of unary().
unaryEmit(m, operatorType) ==
    IF operatorType = "TOKEN_MINUS" THEN emitByte(m, OP_NEGATE) ELSE m

unary_emit ==
    /\ Running("unary", "emit")
    /\ Becomes(unaryEmit(Machine, Top.operatorType))
    /\ frames' = Pop
    /\ UNCHANGED <<phase, result, vm, ncalls, first>>

\* binary(), up to its call of parsePrecedence.
binary_enter ==
    /\ Running("binary", "start")
    /\ LET operatorType == parser.previous.type
           rule == getRule(operatorType)
       IN  frames' = Append(Append(Pop, [Top EXCEPT !.pc = "emit",
                                                    !.operatorType = operatorType]),
                            CallParsePrecedence(BinaryOperandPrecedence(rule)))
    /\ UNCHANGED <<scanner, parser, chunk, errout, phase, result, vm, ncalls, first>>

\* The switch of binary().
binaryEmit(m, operatorType) ==
    CASE operatorType = "TOKEN_PLUS" -> emitByte(m, OP_ADD)
      [] operatorType = "TOKEN_MINUS" -> emitByte(m, OP_SUBTRACT)
      [] operatorType = "TOKEN_STAR" -> emitByte(m, OP_MULTIPLY)
      [] operatorType = "TOKEN_SLASH" -> emitByte(m, OP_DIVIDE)
      [] OTHER -> m

binary_emit ==
    /\ Running("binary", "emit")
    /\ Becomes(binaryEmit(Machine, Top.operatorType))
    /\ frames' = Pop
    /\ UNCHANGED <<phase, result, vm, ncalls, first>>

\* compile without its consume(TOKEN_EOF, ...).
compileFinishNoConsume(m) == endCompiler(m)

\* compile, from the return of expression() to its own return.
compileFinish(m) ==
    endCompiler(consume(m, "TOKEN_EOF", Text("Expect end of expression.")))

compile_return ==
    /\ Running("compile", "afterExpression")
    /\ LET m == compileFinish(Machine)
       IN  /\ Becomes(m)
           /\ result' = ~m.parser.hadError
           /\ first' = IF ncalls = 0
                       THEN [source |-> scanner.tokens, result |-> ~m.parser.hadError,
                             chunk |-> m.chunk]
                       ELSE first
    /\ ncalls' = ncalls + 1
    /\ frames' = Pop
    /\ phase' = "compiled"
    /\ UNCHANGED vm

----------------------------------------------------------------------------
(* The virtual machine *)

\* The operand stack's fixed capacity.
STACK_MAX == 256

BinaryOpcodes == {OP_ADD, OP_SUBTRACT, OP_MULTIPLY, OP_DIVIDE}

\* left op right
BinaryOp(opcode, left, right) ==
    CASE opcode = OP_ADD -> ValAdd(left, right)
      [] opcode = OP_SUBTRACT -> ValSub(left, right)
      [] opcode = OP_MULTIPLY -> ValMul(left, right)
      [] opcode = OP_DIVIDE -> ValDiv(left, right)

\* The operands an opcode needs on the stack.
Pops(opcode) == IF opcode \in BinaryOpcodes THEN 2 ELSE IF opcode = OP_NEGATE THEN 1 ELSE 0

\* One turn of the dispatch loop on chunk c: the VM after it and the phase it is in.
\* A read outside the code or the pool, an unknown opcode and a pop of an empty
\* stack have no defined outcome: they end the run in "fault".
dispatch(v, c) ==
    LET depth == Len(v.stack)
        Fault == [phase |-> "fault", vm |-> v]
        Push(x, ip) ==
            IF depth >= STACK_MAX THEN [phase |-> "stack_overflow", vm |-> v]
            ELSE [phase |-> "running", vm |-> [v EXCEPT !.ip = ip, !.stack = Append(@, x)]]
    IN  IF v.ip >= Len(c.code) THEN Fault
        ELSE LET instruction == c.code[v.ip + 1]
             IN  IF depth < Pops(instruction) THEN Fault
                 ELSE IF instruction = OP_CONSTANT
                 THEN IF v.ip + 1 >= Len(c.code) THEN Fault
                      ELSE IF c.code[v.ip + 2] >= Len(c.constants) THEN Fault
                      ELSE Push(c.constants[c.code[v.ip + 2] + 1], v.ip + 2)
                 ELSE IF instruction \in BinaryOpcodes
                 THEN LET right == v.stack[depth]
                          left == v.stack[depth - 1]
                      IN  [phase |-> "running",
                           vm |-> [v EXCEPT !.ip = @ + 1,
                                            !.stack = Append(SubSeq(@, 1, depth - 2),
                                                             BinaryOp(instruction, left, right))]]
                 ELSE IF instruction = OP_NEGATE
                 THEN [phase |-> "running",
                       vm |-> [v EXCEPT !.ip = @ + 1,
                                        !.stack = Append(SubSeq(@, 1, depth - 1),
                                                         ValNegate(v.stack[depth]))]]
                 ELSE IF instruction = OP_RETURN
                 THEN [phase |-> "ok",
                       vm |-> [v EXCEPT !.ip = @ + 1,
                                        !.value = IF depth > 0 THEN v.stack[depth] ELSE NoValue]]
                 ELSE Fault

\* The caller of compile: a failed compile is never executed.
interpret ==
    /\ phase = "compiled"
    /\ IF result
       THEN /\ phase' = "running"
            /\ vm' = [ip |-> 0, stack |-> <<>>, value |-> NoValue]
       ELSE /\ phase' = "compile_error"
            /\ UNCHANGED vm
    /\ UNCHANGED <<scanner, parser, chunk, errout, frames, result, ncalls, first>>

vm_step ==
    /\ phase = "running"
    /\ LET r == dispatch(vm, chunk)
       IN  /\ phase' = r.phase
           /\ vm' = r.vm
    /\ UNCHANGED <<scanner, parser, chunk, errout, frames, result, ncalls, first>>

----------------------------------------------------------------------------

Next ==
    \/ compile_enter
    \/ parsePrecedence_prefix
    \/ parsePrecedence_infix
    \/ number_call
    \/ grouping_enter
    \/ grouping_consume
    \/ unary_enter
    \/ unary_emit
    \/ binary_enter
    \/ binary_emit
    \/ compile_return
    \/ interpret
    \/ vm_step

Spec == Init /\ [][Next]_vars

\* The program is one thread that runs until it returns: a step that can be taken is
\* taken.
SpecFair == Init /\ [][Next]_vars /\ WF_vars(Next)

\* The caller compiles again, into a freshly initialised chunk, unless it has just
\* compiled the first call's source for the second time.  The parser is the global it
\* was: compile sets of it what compile sets.
compile_again ==
    /\ phase = "compiled"
    /\ ncalls = 1 \/ scanner.tokens # first.source
    /\ chunk' = initChunk
    /\ phase' = "idle"
    /\ UNCHANGED <<scanner, parser, errout, frames, result, vm, ncalls, first>>

\* The first call compiles a source of Recompiled; a later call compiles that source
\* again, or one of Interleaved while fewer than MaxBetween of them have run.
Compilable ==
    IF ncalls = 0 THEN Recompiled
    ELSE {first.source} \cup (IF ncalls - 1 < MaxBetween THEN Interleaved ELSE {})

recompile_enter == compileEnter(Compilable)

NextRecompile ==
    \/ recompile_enter
    \/ parsePrecedence_prefix
    \/ parsePrecedence_infix
    \/ number_call
    \/ grouping_enter
    \/ grouping_consume
    \/ unary_enter
    \/ unary_emit
    \/ binary_enter
    \/ binary_emit
    \/ compile_return
    \/ compile_again

\* Several compile calls in one run of the program, none of them executed.
SpecRecompile == Init /\ [][NextRecompile]_vars

----------------------------------------------------------------------------
(* The reference: a recursive-descent reading of the grammar                 *)
(*     expression := factor (("+" | "-") factor)*                            *)
(*     factor     := unary (("*" | "/") unary)*                              *)
(*     unary      := "-" unary | primary                                     *)
(*     primary    := NUMBER | "(" expression ")"                             *)
(* A reading yields the value of the expression, its postfix bytecode and    *)
(* the constants it pools.                                                   *)

TypeAt(toks, i) == IF i \in 1..Len(toks) THEN toks[i].type ELSE "TOKEN_EOF"

\* The number a literal's lexeme writes: each digit weighs ten to the power of its place.
RECURSIVE Pow10(_)
Pow10(n) == IF n = 0 THEN 1 ELSE 10 * Pow10(n - 1)

DigitOf(ch) == CHOOSE d \in 0..9 : Digit[d + 1] = ch

RECURSIVE PlaceSum(_, _)
PlaceSum(lexeme, i) ==
    IF i > Len(lexeme) THEN 0
    ELSE DigitOf(lexeme[i]) * Pow10(Len(lexeme) - i) + PlaceSum(lexeme, i + 1)

LiteralOf(tok) == PlaceSum(tok.start, 1)

\* A reading that ends before token next; its code numbers its constants from k.
Read(next, value, code, pool) ==
    [ok |-> TRUE, next |-> next, value |-> value, code |-> code, pool |-> pool]
NoRead == [ok |-> FALSE, next |-> 0, value |-> NoValue, code |-> <<>>, pool |-> <<>>]

\* The opcode and the arithmetic of a binary operator token.
OpcodeOf(type) ==
    CASE type = "TOKEN_PLUS" -> OP_ADD
      [] type = "TOKEN_MINUS" -> OP_SUBTRACT
      [] type = "TOKEN_STAR" -> OP_MULTIPLY
      [] type = "TOKEN_SLASH" -> OP_DIVIDE

Apply(type, left, right) ==
    CASE type = "TOKEN_PLUS" -> ValAdd(left, right)
      [] type = "TOKEN_MINUS" -> ValSub(left, right)
      [] type = "TOKEN_STAR" -> ValMul(left, right)
      [] type = "TOKEN_SLASH" -> ValDiv(left, right)

RECURSIVE RefExpression(_, _, _), RefExpressionRest(_, _, _), RefFactor(_, _, _)
RECURSIVE RefFactorRest(_, _, _), RefUnary(_, _, _), RefPrimary(_, _, _)

RefPrimary(toks, i, k) ==
    IF TypeAt(toks, i) = "TOKEN_NUMBER"
    THEN LET v == Num(LiteralOf(toks[i]))
         IN  Read(i + 1, v, <<OP_CONSTANT, k>>, <<v>>)
    ELSE IF TypeAt(toks, i) = "TOKEN_LEFT_PAREN"
    THEN LET e == RefExpression(toks, i + 1, k)
         IN  IF e.ok /\ TypeAt(toks, e.next) = "TOKEN_RIGHT_PAREN"
             THEN [e EXCEPT !.next = @ + 1]
             ELSE NoRead
    ELSE NoRead

RefUnary(toks, i, k) ==
    IF TypeAt(toks, i) = "TOKEN_MINUS"
    THEN LET u == RefUnary(toks, i + 1, k)
         IN  IF u.ok
             THEN Read(u.next, ValNegate(u.value), Append(u.code, OP_NEGATE), u.pool)
             ELSE NoRead
    ELSE RefPrimary(toks, i, k)

\* left is the reading of the operands so far; the loop folds to the left.
RefFactorRest(toks, left, k) ==
    IF TypeAt(toks, left.next) \in {"TOKEN_STAR", "TOKEN_SLASH"}
    THEN LET op == TypeAt(toks, left.next)
             right == RefUnary(toks, left.next + 1, k + Len(left.pool))
         IN  IF right.ok
             THEN RefFactorRest(toks,
                      Read(right.next, Apply(op, left.value, right.value),
                           Append(left.code \o right.code, OpcodeOf(op)),
                           left.pool \o right.pool), k)
             ELSE NoRead
    ELSE left

RefFactor(toks, i, k) ==
    LET u == RefUnary(toks, i, k)
    IN  IF u.ok THEN RefFactorRest(toks, u, k) ELSE NoRead

RefExpressionRest(toks, left, k) ==
    IF TypeAt(toks, left.next) \in {"TOKEN_PLUS", "TOKEN_MINUS"}
    THEN LET op == TypeAt(toks, left.next)
             right == RefFactor(toks, left.next + 1, k + Len(left.pool))
         IN  IF right.ok
             THEN RefExpressionRest(toks,
                      Read(right.next, Apply(op, left.value, right.value),
                           Append(left.code \o right.code, OpcodeOf(op)),
                           left.pool \o right.pool), k)
             ELSE NoRead
    ELSE left

RefExpression(toks, i, k) ==
    LET f == RefFactor(toks, i, k)
    IN  IF f.ok THEN RefExpressionRest(toks, f, k) ELSE NoRead

\* The reading of a whole source: one expression, then end-of-source.
Reference(toks) ==
    LET e == RefExpression(toks, 1, 0)
    IN  IF e.ok /\ e.next = Len(toks) + 1 THEN e ELSE NoRead

WellFormed(toks) == Reference(toks).ok

NumLiterals(toks) == Cardinality({i \in 1..Len(toks) : toks[i].type = "TOKEN_NUMBER"})

\* compile has returned.
Returned == phase \notin {"idle", "compiling"}

----------------------------------------------------------------------------
(* The claims *)

Source == scanner.tokens

Terminal == {"ok", "compile_error", "fault", "stack_overflow"}

\* The pool the literals a, b, c make.
Pool3(a, b, c) == <<Num(LiteralOf(a)), Num(LiteralOf(b)), Num(LiteralOf(c))>>

\* Source is "a p b q c" with literals a, b, c, p among the operators P and q among Q.
IsTriple(P, Q) ==
    /\ Len(Source) = 5
    /\ \A i \in {1, 3, 5} : Source[i].type = "TOKEN_NUMBER"
    /\ Source[2] \in P
    /\ Source[4] \in Q

\* C1: a well-formed expression with at most 256 literals compiles successfully, and
\* running the bytecode ends with the value the reference reading of the expression
\* has; "((1 + 2) * 3 - 4) / -5" ends with -1.
C1_CompileThenRunIsReference ==
    /\ phase = "compiled" /\ NumLiterals(Source) <= UINT8_MAX + 1 /\ WellFormed(Source)
          => result
    /\ phase \in Terminal /\ NumLiterals(Source) <= UINT8_MAX + 1 /\ WellFormed(Source)
          => phase = "ok" /\ vm.value = Reference(Source).value
    /\ phase = "ok" /\ Source = SrcEndToEnd => vm.value = Num(-1)

C1_Witness == phase = "ok" /\ Source = SrcEndToEnd /\ vm.value = Num(-1)

\* C2: "a t b f c" with t in {+,-} and f in {*,/} compiles to CONSTANT a, CONSTANT b,
\* CONSTANT c, f, t, RETURN, and "a f b t c" to CONSTANT a, CONSTANT b, f, CONSTANT c,
\* t, RETURN; "2 + 3 * 4" runs to 14.
C2_FactorBindsTighter ==
    /\ phase = "compiled" /\ IsTriple(TermOps, FactorOps)
          => /\ chunk.code = <<OP_CONSTANT, 0, OP_CONSTANT, 1, OP_CONSTANT, 2,
                               OpcodeOf(Source[4].type), OpcodeOf(Source[2].type), OP_RETURN>>
             /\ chunk.constants = Pool3(Source[1], Source[3], Source[5])
    /\ phase = "compiled" /\ IsTriple(FactorOps, TermOps)
          => /\ chunk.code = <<OP_CONSTANT, 0, OP_CONSTANT, 1, OpcodeOf(Source[2].type),
                               OP_CONSTANT, 2, OpcodeOf(Source[4].type), OP_RETURN>>
             /\ chunk.constants = Pool3(Source[1], Source[3], Source[5])
    /\ phase \in Terminal /\ Source = SrcPrecedence => phase = "ok" /\ vm.value = Num(14)

C2_Witness == phase = "ok" /\ Source = SrcPrecedence /\ vm.value = Num(14)

\* C3: "a p b q c" with p and q of one precedence level compiles to CONSTANT a,
\* CONSTANT b, p, CONSTANT c, q, RETURN and runs to (a p b) q c, the first-popped value
\* being the right operand; "8 - 4 - 2" runs to 2.
C3_LeftAssociative ==
    /\ phase = "compiled" /\ (IsTriple(TermOps, TermOps) \/ IsTriple(FactorOps, FactorOps))
          => /\ chunk.code = <<OP_CONSTANT, 0, OP_CONSTANT, 1, OpcodeOf(Source[2].type),
                               OP_CONSTANT, 2, OpcodeOf(Source[4].type), OP_RETURN>>
             /\ chunk.constants = Pool3(Source[1], Source[3], Source[5])
    /\ phase \in Terminal /\ (IsTriple(TermOps, TermOps) \/ IsTriple(FactorOps, FactorOps))
          => /\ phase = "ok"
             /\ vm.value = Apply(Source[4].type,
                                 Apply(Source[2].type, Num(LiteralOf(Source[1])),
                                       Num(LiteralOf(Source[3]))),
                                 Num(LiteralOf(Source[5])))
    /\ phase \in Terminal /\ Source = SrcLeftAssoc => phase = "ok" /\ vm.value = Num(2)

C3_Witness == phase = "ok" /\ Source = SrcLeftAssoc /\ vm.value = Num(2)

\* A minus sign where an expression starts.
HasUnaryMinus(toks) ==
    \E i \in 1..Len(toks) :
        /\ toks[i].type = "TOKEN_MINUS"
        /\ i = 1 \/ toks[i - 1].type \notin {"TOKEN_NUMBER", "TOKEN_RIGHT_PAREN"}

\* Source is "- a p b" with literals a, b and a binary operator p.
IsNegatedLeft ==
    /\ Len(Source) = 4
    /\ Source[1].type = "TOKEN_MINUS"
    /\ Source[2].type = "TOKEN_NUMBER"
    /\ Source[3] \in BinOps
    /\ Source[4].type = "TOKEN_NUMBER"

\* C4: NEGATE follows the code of the operand of the unary minus (a literal, a
\* parenthesised expression or another unary minus) and precedes the right operand of
\* any binary operator after it: the bytecode of a well-formed expression with a unary
\* minus is the reference reading's, "-a p b" negates only a, "-(1 + 2)" runs to -3 and
\* "- - 5" to 5.
C4_UnaryBindsTightest ==
    /\ (/\ phase = "compiled"
        /\ HasUnaryMinus(Source)
        /\ NumLiterals(Source) <= UINT8_MAX + 1
        /\ WellFormed(Source))
          => chunk.code = Append(Reference(Source).code, OP_RETURN)
    /\ phase = "compiled" /\ IsNegatedLeft
          => chunk.code = <<OP_CONSTANT, 0, OP_NEGATE, OP_CONSTANT, 1,
                            OpcodeOf(Source[3].type), OP_RETURN>>
    /\ phase \in Terminal /\ Source = SrcNegGroup => phase = "ok" /\ vm.value = Num(-3)
    /\ phase \in Terminal /\ Source = SrcDoubleNeg => phase = "ok" /\ vm.value = Num(5)

C4_Witness ==
    /\ phase = "ok"
    /\ Source = <<MINUS, NumTok(2), STAR, NumTok(1)>>
    /\ chunk.code = <<OP_CONSTANT, 0, OP_NEGATE, OP_CONSTANT, 1, OP_MULTIPLY, OP_RETURN>>
    /\ vm.value = Num(-2)

\* C5: compile returns false for every token sequence that is not one well-formed
\* expression followed by end-of-source.
C5_MalformedFails == phase = "compiled" /\ ~WellFormed(Source) => ~result

C5_Witness == phase = "compile_error" /\ Source = SrcMissingOperand /\ ~result

TooManyDiagnostic(token) == Diagnostic(token, Text("Too many constants in one chunk."))

\* C6: a well-formed expression with more than 256 literals fails to compile and the
\* diagnostic "Too many constants in one chunk." is written, at the 257th literal; a
\* compile that succeeds pooled at most 256 constants, so no operand byte was wrapped.
C6_TooManyConstantsFails ==
    /\ phase = "compiled" /\ NumLiterals(Source) > UINT8_MAX + 1 /\ WellFormed(Source)
          => /\ ~result
             /\ errout = <<TooManyDiagnostic(NumTok(UINT8_MAX + 2))>>
    /\ phase = "compiled" /\ result
          => /\ Len(chunk.constants) <= UINT8_MAX + 1
             /\ chunk.code = Append(Reference(Source).code, OP_RETURN)

C6_Witness ==
    /\ phase = "compile_error"
    /\ Source = Chain(ManyLiterals, PLUS)
    /\ errout = <<TooManyDiagnostic(NumTok(UINT8_MAX + 2))>>

\* C7: in every state during or after a compile call the pool of the chunk holds at
\* most 256 values.
C7_PoolHoldsAtMost256 == Len(chunk.constants) <= UINT8_MAX + 1

\* C8: a source compiled a second time into a fresh chunk, after any compile calls
\* in between (failed ones included), gives the success flag, the instruction bytes, the
\* line entries and the constant pool of its first compilation.
C8_CompileIsDeterministic ==
    phase = "compiled" /\ ncalls >= 2 /\ Source = first.source
        => result = first.result /\ chunk = first.chunk

\* "12 *\n(30 - 4)" compiled, then "1 +" (which fails at end-of-source), then
\* "12 *\n(30 - 4)" again.
C8_Witness ==
    /\ phase = "compiled"
    /\ ncalls = 3
    /\ Source = SrcTwoLines
    /\ first.source = SrcTwoLines
    /\ result
    /\ chunk.lines = <<1, 1, 2, 2, 2, 2, 2, 2, 2>>
    /\ errout = <<Diagnostic(Token("TOKEN_EOF", <<>>, 1), Text("Expect expression."))>>

\* C9: once a diagnostic line is written hadError is set and stays set, and the
\* compile call returns false.
C9_DiagnosticMeansFailure ==
    errout # <<>> => parser.hadError /\ (Returned => ~result)

C9_Witness == phase = "compile_error" /\ Source = SrcThreeLines /\ Len(errout) = 1

\* C10: the bytecode of a successful compile ends with RETURN, and run from offset 0
\* every CONSTANT dispatched has an operand byte that indexes the pool, every binary
\* opcode finds two values on the stack, every NEGATE one, and RETURN is dispatched at
\* the last byte with exactly one value on the stack.
C10_SuccessfulCodeIsWellFormed ==
    result =>
        /\ chunk.code # <<>>
        /\ chunk.code[Len(chunk.code)] = OP_RETURN
        /\ phase \notin {"fault", "stack_overflow"}
        /\ phase = "running" =>
              /\ vm.ip < Len(chunk.code)
              /\ LET instruction == chunk.code[vm.ip + 1]
                     depth == Len(vm.stack)
                 IN  /\ instruction \in BinaryOpcodes \cup {OP_CONSTANT, OP_NEGATE, OP_RETURN}
                     /\ instruction = OP_CONSTANT =>
                           /\ vm.ip + 1 < Len(chunk.code)
                           /\ chunk.code[vm.ip + 2] < Len(chunk.constants)
                     /\ instruction \in BinaryOpcodes => depth >= 2
                     /\ instruction = OP_NEGATE => depth >= 1
                     /\ instruction = OP_RETURN => depth = 1 /\ vm.ip = Len(chunk.code) - 1

C10_Witness ==
    /\ result
    /\ phase = "running"
    /\ Source = SrcEndToEnd
    /\ chunk.code[vm.ip + 1] = OP_RETURN
    /\ Len(vm.stack) = 1

----------------------------------------------------------------------------

\* The dispatch loop starts at offset 0.
VmStartsAtZero == phase # "running" /\ phase' = "running" => vm'.ip = 0

\* One turn of the dispatch loop on compiled code: the instruction is inside the
\* code, the instruction pointer moves forward and stays inside the code unless the
\* instruction is the last byte and a RETURN, which ends the run in ok.
VmStepsForward ==
    phase = "running" =>
        /\ vm.ip < Len(chunk.code)
        /\ vm'.ip > vm.ip
        /\ vm'.ip <= Len(chunk.code)
        /\ IF chunk.code[vm.ip + 1] = OP_RETURN
           THEN vm.ip = Len(chunk.code) - 1 /\ phase' = "ok"
           ELSE vm'.ip < Len(chunk.code) /\ phase' = "running"

\* C11: the run of a container that a successful compile produced ends in ok: the
\* instruction pointer starts at 0, strictly increases, never reads past the last
\* instruction byte, the first RETURN dispatched is the trailing one, and no run
\* ends in a runtime error, a read outside the container or a stack overflow.
C11_RunEndsInOk ==
    /\ [][VmStartsAtZero /\ VmStepsForward]_vars
    /\ [](phase \notin {"runtime_error", "fault", "stack_overflow"})
    /\ ((phase = "running") ~> (phase = "ok"))

C11_Witness ==
    /\ phase = "ok"
    /\ Source = SrcEndToEnd
    /\ vm.ip = Len(chunk.code)
    /\ chunk.code[vm.ip] = OP_RETURN

----------------------------------------------------------------------------

\* The source without its error tokens.
StripErrors(toks) == SelectSeq(toks, LAMBDA t : t.type # "TOKEN_ERROR")

\* C12: when compile has returned, with success or failure, the last byte of the
\* code is RETURN, and the parse went on past the first error: a source that is well
\* formed but for its error tokens leaves the code and the pool of the source without
\* them, and a missing right operand leaves the operator's instruction after the
\* left operand's.
C12_ReturnEndsEveryCompile ==
    phase = "compiled" =>
        /\ chunk.code # <<>>
        /\ chunk.code[Len(chunk.code)] = OP_RETURN
        /\ Len(chunk.lines) = Len(chunk.code)
        /\ LET clean == StripErrors(Source)
           IN  (clean # Source /\ WellFormed(clean)) =>
                   /\ ~result
                   /\ chunk.code = Append(Reference(clean).code, OP_RETURN)
                   /\ chunk.constants = Reference(clean).pool
        /\ \A a \in Lits, p \in BinOps :
               Source = <<a, p>> =>
                   /\ ~result
                   /\ chunk.code = <<OP_CONSTANT, 0, OpcodeOf(p.type), OP_RETURN>>

C12_Witness ==
    /\ phase = "compiled"
    /\ Source = <<NumTok(1), PLUS, ERRTOK, ERRTOK2, NumTok(2)>>
    /\ ~result
    /\ errout = <<Diagnostic(ERRTOK, ERRTOK.start)>>
    /\ chunk.code = <<OP_CONSTANT, 0, OP_CONSTANT, 1, OP_ADD, OP_RETURN>>

----------------------------------------------------------------------------

\* The token the source holds at a position: end-of-source past its last token.
TokenAt(toks, pos) ==
    IF pos <= Len(toks) THEN toks[pos] ELSE Token("TOKEN_EOF", <<>>, LastLine(toks))

\* The number of consecutive error tokens the source holds from a position on.
RECURSIVE ErrorRun(_, _)
ErrorRun(toks, pos) ==
    IF pos <= Len(toks) /\ toks[pos].type = "TOKEN_ERROR"
    THEN 1 + ErrorRun(toks, pos + 1)
    ELSE 0

\* The steps that are one call of advance and nothing else: compile's advance after
\* its resets, and the advance of parsePrecedence's loop.
AdvanceAlone ==
    \/ phase = "idle" /\ phase' = "compiling"
    \/ Running("parsePrecedence", "loop") /\ Len(frames') > Len(frames)

\* Where the scanner stands, and whether panicMode is set, when that advance starts.
AdvanceFrom == IF phase = "idle" THEN 1 ELSE scanner.pos
PanicAtAdvance == IF phase = "idle" THEN FALSE ELSE parser.panicMode

\* The error tokens that advance skips.
SkippedErrors == ErrorRun(scanner'.tokens, AdvanceFrom)

\* Where advance ends: on the first token that is no error token, the old current
\* being the new previous.
AdvanceEndsOnToken ==
    /\ parser'.current = TokenAt(scanner'.tokens, AdvanceFrom + SkippedErrors)
    /\ parser'.previous = parser.current
    /\ chunk' = chunk

\* C13 as stated: advance writes one diagnostic per error token it skips.
C13_AdvanceReportsEachErrorToken ==
    [][AdvanceAlone =>
          /\ Len(errout') = Len(errout) + SkippedErrors
          /\ \A i \in 1..SkippedErrors :
                 LET token == scanner'.tokens[AdvanceFrom + i - 1]
                 IN  errout'[Len(errout) + i] = Diagnostic(token, token.start)
          /\ AdvanceEndsOnToken]_vars

\* C13, amended: advance calls errorAtCurrent for each error token it skips, and only
\* the first call writes, and only if panicMode was clear: one diagnostic, for the
\* first error token of the run, or none; advance ends with current on the next token
\* that is no error token and previous on the old current.
C13_AdvanceReportsFirstErrorToken ==
    [][AdvanceAlone =>
          /\ errout' = IF SkippedErrors > 0 /\ ~PanicAtAdvance
                       THEN LET token == scanner'.tokens[AdvanceFrom]
                            IN  Append(errout, Diagnostic(token, token.start))
                       ELSE errout
          /\ parser'.panicMode = (PanicAtAdvance \/ SkippedErrors > 0)
          /\ parser'.hadError = parser'.panicMode
          /\ AdvanceEndsOnToken]_vars

\* advance has skipped two error tokens and reported the first.
C13_Witness ==
    /\ phase = "compiling"
    /\ \E a \in Lits, b \in Lits :
           /\ Source = <<a, PLUS, ERRTOK2, ERRTOK, ERRTOK, b>>
           /\ parser.previous = PLUS
           /\ parser.current = b
    /\ scanner.pos = 7
    /\ errout = <<Diagnostic(ERRTOK2, ERRTOK2.start)>>

----------------------------------------------------------------------------

\* The steps in which errorAt is called: an error token skipped, a token without a
\* prefix rule, a consume of another token than the expected one, a constant whose
\* index does not fit a byte.
ErrorAtCalled ==
    \/ AdvanceAlone /\ SkippedErrors > 0
    \/ Running("parsePrecedence", "start") /\ Len(frames') < Len(frames)
    \/ Running("grouping", "consume") /\ parser.current.type # "TOKEN_RIGHT_PAREN"
    \/ Running("compile", "afterExpression") /\ parser.current.type # "TOKEN_EOF"
    \/ Running("number", "start") /\ Len(chunk.constants) > UINT8_MAX

\* C14: after every call of errorAt, the suppressed ones included, hadError is true;
\* in every state of every compile call, the first or a later one, panicMode implies
\* hadError.
C14_PanicImpliesHadError ==
    /\ [][ErrorAtCalled => parser'.hadError]_vars
    /\ [](parser.panicMode => parser.hadError)

\* A second compile call has returned after a suppressed errorAt: the stray ')' of
\* its source is still the current token, and the one diagnostic is the error token's.
C14_Witness ==
    /\ phase = "compiled"
    /\ ncalls = 2
    /\ Source = SrcThreeLines
    /\ parser.current = OnLine(RPAREN, 3)
    /\ parser.panicMode
    /\ parser.hadError
    /\ errout # <<>>
    /\ errout[Len(errout)] = Diagnostic(OnLine(ERRTOK, 2), ERRTOK.start)

----------------------------------------------------------------------------

\* The steps that call consume: grouping's, after its expression, and compile's.
ConsumeStep == Running("grouping", "consume") \/ Running("compile", "afterExpression")

\* The type consume expects there, and the message it reports.
Expected == IF Top.fn = "grouping" THEN "TOKEN_RIGHT_PAREN" ELSE "TOKEN_EOF"
Message ==
    IF Top.fn = "grouping" THEN Text("Expect ')' after expression.")
    ELSE Text("Expect end of expression.")

\* What the caller of consume writes to the container in the same step: compile's
\* endCompiler writes RETURN, grouping writes nothing.
WrittenWithConsume ==
    IF Top.fn = "grouping" THEN chunk' = chunk
    ELSE /\ chunk'.code = Append(chunk.code, OP_RETURN)
         /\ chunk'.constants = chunk.constants

\* consume of another token than the expected one: nothing moves, both flags are
\* set, and the message is reported at the current token unless panicMode was set.
MismatchReported ==
    /\ parser'.current = parser.current
    /\ parser'.previous = parser.previous
    /\ scanner' = scanner
    /\ WrittenWithConsume
    /\ parser'.panicMode
    /\ parser'.hadError
    /\ errout' = IF parser.panicMode THEN errout
                 ELSE Append(errout, Diagnostic(parser.current, Message))

\* The scanner's position after it has yielded n more tokens.
After(n) ==
    IF scanner.pos + n > Len(scanner.tokens) + 1 THEN Len(scanner.tokens) + 1
    ELSE scanner.pos + n

\* C15 as stated: consume of the expected token advances exactly one token and
\* reports nothing.
C15_ConsumeAdvancesOneToken ==
    [][ConsumeStep =>
          IF parser.current.type = Expected
          THEN /\ parser'.previous = parser.current
               /\ parser'.current = TokenAt(scanner.tokens, scanner.pos)
               /\ scanner'.pos = After(1)
               /\ WrittenWithConsume
               /\ errout' = errout
               /\ parser'.panicMode = parser.panicMode
               /\ parser'.hadError = parser.hadError
          ELSE MismatchReported]_vars

\* C15, amended: consume of the expected token is one advance: previous becomes the
\* consumed token, current the next token that is no error token, and the error
\* tokens skipped on the way set both flags and are reported as advance reports them
\* (the first one, unless panicMode was set); consume of another token moves
\* nothing, sets both flags and reports its message unless panicMode was set.
C15_ConsumeIsOneAdvance ==
    [][ConsumeStep =>
          IF parser.current.type = Expected
          THEN LET k == ErrorRun(scanner.tokens, scanner.pos)
               IN  /\ parser'.previous = parser.current
                   /\ parser'.current = TokenAt(scanner.tokens, scanner.pos + k)
                   /\ scanner'.pos = After(k + 1)
                   /\ WrittenWithConsume
                   /\ errout' = IF k > 0 /\ ~parser.panicMode
                                THEN Append(errout,
                                            Diagnostic(scanner.tokens[scanner.pos],
                                                       scanner.tokens[scanner.pos].start))
                                ELSE errout
                   /\ parser'.panicMode = (parser.panicMode \/ k > 0)
                   /\ parser'.hadError = (parser.hadError \/ k > 0)
          ELSE MismatchReported]_vars

\* grouping's consume has taken its ')' and skipped, and reported, the error token
\* after it.
C15_Witness ==
    /\ phase = "compiling"
    /\ \E a \in Lits : Source = <<LPAREN, a, RPAREN, ERRTOK>>
    /\ parser.previous = RPAREN
    /\ parser.current.type = "TOKEN_EOF"
    /\ Top.fn = "parsePrecedence"
    /\ errout = <<Diagnostic(ERRTOK, ERRTOK.start)>>

----------------------------------------------------------------------------

\* The values of the number literals of a source, in source order.
LiteralValues(toks) ==
    LET literals == SelectSeq(toks, LAMBDA t : t.type = "TOKEN_NUMBER")
    IN  [i \in 1..Len(literals) |-> Num(LiteralOf(literals[i]))]

\* One call of number() while the pool holds at most 255 values: the literal just
\* consumed is appended to the pool, whatever the pool holds, and CONSTANT is
\* emitted with the index of the new entry as its operand.
LiteralPooledInOrder ==
    Running("number", "start") /\ Len(chunk.constants) <= UINT8_MAX =>
        /\ chunk'.constants = Append(chunk.constants, Num(LiteralOf(parser.previous)))
        /\ chunk'.code = chunk.code \o <<OP_CONSTANT, Len(chunk.constants)>>

\* C16: constants are pooled in source order without deduplication: the k-th number
\* literal consumed is stored at pool index k and is the operand of its CONSTANT
\* instruction; the pool of a compile is the values of the source's first literals
\* in source order, and "a op a" pools a twice, with operands 0 and 1.
C16_ConstantsPooledInSourceOrder ==
    /\ [][LiteralPooledInOrder]_vars
    /\ [](phase = "compiled" =>
            /\ Len(chunk.constants) <= NumLiterals(Source)
            /\ chunk.constants =
                   SubSeq(LiteralValues(Source), 1, Len(chunk.constants))
            /\ \A a \in Lits, p \in BinOps :
                   Source = <<a, p, a>> =>
                       /\ chunk.constants = <<Num(LiteralOf(a)), Num(LiteralOf(a))>>
                       /\ chunk.code = <<OP_CONSTANT, 0, OP_CONSTANT, 1,
                                         OpcodeOf(p.type), OP_RETURN>>)

C16_Witness ==
    /\ phase = "compiled"
    /\ Source = SrcSameConstant
    /\ result
    /\ chunk.constants = <<Num(1), Num(1)>>
    /\ chunk.code = <<OP_CONSTANT, 0, OP_CONSTANT, 1, OP_ADD, OP_RETURN>>

----------------------------------------------------------------------------

\* The tokens still to be consumed: the current one, unless it is end-of-source, and
\* those the scanner has not yielded.
Remaining ==
    (Len(scanner.tokens) + 1 - scanner.pos)
        + (IF parser.current.type = "TOKEN_EOF" THEN 0 ELSE 1)

\* A call of parsePrecedence, and an iteration of its loop, start with an advance:
\* the current token becomes the previous one, and fewer tokens remain unless the
\* current token was end-of-source already.
TokenConsumedFirst ==
    (\/ Running("parsePrecedence", "start")
     \/ Running("parsePrecedence", "loop") /\ Len(frames') > Len(frames)) =>
        /\ parser'.previous = parser.current
        /\ parser.current.type # "TOKEN_EOF" => Remaining' < Remaining
        /\ Remaining' <= Remaining

\* At end-of-source the loop of parsePrecedence exits, and a call of parsePrecedence
\* returns with "Expect expression." in place of a call of a prefix rule.
EndOfSourceUnwinds ==
    (phase = "compiling" /\ Top.fn = "parsePrecedence"
        /\ parser.current.type = "TOKEN_EOF") =>
        /\ frames' = Pop
        /\ parser'.current.type = "TOKEN_EOF"
        /\ Top.pc = "start" =>
               /\ parser'.hadError
               /\ errout' = IF parser.panicMode THEN errout
                            ELSE Append(errout, Diagnostic(parser.current,
                                                           Text("Expect expression.")))

\* C17: compile returns on every token sequence: each call of parsePrecedence and
\* each iteration of its loop consumes a token first, at end-of-source the loop
\* exits and the prefix lookup fails without a further call, and every compile that
\* has started returns.
C17_CompileTerminates ==
    /\ [][TokenConsumedFirst /\ EndOfSourceUnwinds]_vars
    /\ ((phase = "compiling") ~> (phase = "compiled"))

\* compile has returned from "( 1 +": the operand was looked up at end-of-source.
C17_Witness ==
    /\ phase = "compiled"
    /\ Source = <<LPAREN, NumTok(1), PLUS>>
    /\ ~result
    /\ parser.current.type = "TOKEN_EOF"
    /\ errout = <<Diagnostic(Token("TOKEN_EOF", <<>>, 1), Text("Expect expression."))>>

----------------------------------------------------------------------------

\* C18: no call through a null ParseFn pointer: no frame of the call stack is a call
\* of a null rule, every parsePrecedence runs at a precedence of at least
\* PREC_ASSIGNMENT, and every row of the table with a precedence above PREC_NONE has
\* an infix rule.
C18_InfixRuleIsNeverNull ==
    /\ \A i \in 1..Len(frames) :
           /\ frames[i].fn # "NULL"
           /\ frames[i].fn = "parsePrecedence" => frames[i].precedence >= PREC_ASSIGNMENT
    /\ \A i \in 1..Len(TokenTypes) :
           getRule(TokenTypes[i]).precedence > PREC_NONE =>
               getRule(TokenTypes[i]).infix # "NULL"

\* The loop has met "!=", a token of precedence none, after an operand and has called
\* nothing for it: compile has returned with the token unconsumed.
C18_Witness ==
    /\ phase = "compiled"
    /\ Source = <<NumTok(1), TypeTok("TOKEN_BANG_EQUAL"), NumTok(2)>>
    /\ parser.current = TypeTok("TOKEN_BANG_EQUAL")
    /\ chunk.code = <<OP_CONSTANT, 0, OP_RETURN>>
    /\ errout = <<Diagnostic(TypeTok("TOKEN_BANG_EQUAL"), Text("Expect end of expression."))>>

----------------------------------------------------------------------------

\* C19: while the code of a successful compile runs, the operand stack is never
\* deeper than the pool is long, the pool holds at most 256 constants, and the VM's
\* stack of STACK_MAX slots never overflows.
C19_StackDepthAtMostPoolSize ==
    /\ phase # "stack_overflow"
    /\ phase \in {"running", "ok"} =>
           /\ Len(vm.stack) <= Len(chunk.constants)
           /\ Len(chunk.constants) <= UINT8_MAX + 1
           /\ Len(vm.stack) <= STACK_MAX

\* "1 + (2 + (3 + ...": every constant of the pool is on the stack at once.
C19_Witness ==
    /\ phase = "running"
    /\ Source = Nested(DeepNest)
    /\ Len(chunk.constants) = DeepNest
    /\ Len(vm.stack) = DeepNest

----------------------------------------------------------------------------

\* The steps that start with an advance, and whether that advance skips error tokens.
StepAdvances ==
    \/ AdvanceAlone
    \/ Running("parsePrecedence", "start")
    \/ ConsumeStep /\ parser.current.type = Expected
SkipsErrors == StepAdvances /\ SkippedErrors > 0

\* The steps in which errorAt is called at least once.
ErrorInStep == SkipsErrors \/ ErrorAtCalled

\* The line of the first call of errorAt in a step, in the order of the calls: that
\* of the first error token skipped, else that of the one error the step's function
\* reports.
FirstErrorLine ==
    IF SkipsErrors
    THEN LET token == scanner'.tokens[AdvanceFrom]
         IN  Diagnostic(token, token.start)
    ELSE IF Running("parsePrecedence", "start")
    THEN Diagnostic(parser.current, Text("Expect expression."))
    ELSE IF ConsumeStep
    THEN Diagnostic(parser.current, Message)
    ELSE Diagnostic(parser.previous, Text("Too many constants in one chunk."))

\* C20: within a compile call panicMode stays set once set; stderr holds at most one
\* line; stderr changes only in a step that calls errorAt while stderr is empty, and
\* the line written is that of the first call, whatever errors come later.
C20_OneDiagnosticForTheFirstError ==
    /\ [][phase = "compiling" /\ parser.panicMode => parser'.panicMode]_vars
    /\ [][ErrorInStep /\ errout = <<>> => errout' = <<FirstErrorLine>>]_vars
    /\ [][errout' # errout => ErrorInStep /\ errout = <<>>]_vars
    /\ [](Len(errout) <= 1)

\* "1 + ; ' @": the error token after ';' is scanned, and reported, when ';' is
\* consumed, before the prefix lookup of ';' fails; the second error token and the
\* missing operand are not reported.
C20_Witness ==
    /\ phase = "compiled"
    /\ Source = <<NumTok(1), PLUS, SEMI, ERRTOK2, ERRTOK>>
    /\ chunk.code = <<OP_CONSTANT, 0, OP_ADD, OP_RETURN>>
    /\ parser.panicMode
    /\ ~result
    /\ errout = <<Diagnostic(ERRTOK2, ERRTOK2.start)>>

====
